---------------------------- MODULE Spec2Model ----------------------------
(***************************************************************************)
(* Runtime environments of the Boa engine                                  *)
(* (core/engine/src/environments/runtime/mod.rs): the EnvironmentStack,    *)
(* the BindingLocator and the locator-driven operations of Context.        *)
(*                                                                         *)
(* Stack indices are 0-based as in the source; the TLA+ sequence `stack`   *)
(* is 1-based, so the environment at source index i is stack[i + 1].       *)
(***************************************************************************)
EXTENDS Integers, Sequences, FiniteSets

VARIABLES stack, global, private_stack, global_object, locator, last, calls,
          in_flight

vars == <<stack, global, private_stack, global_object, locator, last, calls,
          in_flight>>

(***************************************************************************)
(* Bounds of the model.                                                    *)
(***************************************************************************)
MaxStack == 3

MaxPrivate == 3

MaxCalls == 4

MaxEnvIdx == 3

MaxSlot == 2

MaxScopes == 2

(***************************************************************************)
(* Option<T>: None is the empty sequence, Some(v) the one-element one.     *)
(***************************************************************************)
None == <<>>

Some(v) == <<v>>

Names == {"x", "y"}

(***************************************************************************)
(* in_flight is the position of a find_runtime_binding call that has not   *)
(* returned yet; Idle when no such call is running.                        *)
(***************************************************************************)
Idle == [at |-> "idle"]

(***************************************************************************)
(* BindingLocatorEnvironment and BindingLocator.                           *)
(***************************************************************************)
GlobalObject == [tag |-> "GlobalObject"]

GlobalDeclarative == [tag |-> "GlobalDeclarative"]

Stack(index) == [tag |-> "Stack", index |-> index]

BindingLocator(name, environment, binding_index) ==
    [name |-> name, environment |-> environment, binding_index |-> binding_index]

declarative_no_offset(name, environment_index, binding_index) ==
    BindingLocator(name, environment_index + 2, binding_index)

declarative(name, environment_index, binding_index) ==
    BindingLocator(name, environment_index + 1, binding_index)

global_locator(name) == BindingLocator(name, 0, 0)

is_global(L) == L.environment = 0

environment(L) ==
    CASE L.environment = 0 -> GlobalObject
      [] L.environment = 1 -> GlobalDeclarative
      [] OTHER -> Stack(L.environment - 2)

set_environment(L, env) ==
    [L EXCEPT !.environment =
        CASE env.tag = "GlobalObject" -> 0
          [] env.tag = "GlobalDeclarative" -> 1
          [] OTHER -> env.index + 2]

binding_index(L) == L.binding_index

(***************************************************************************)
(* CompileTimeEnvironment: the compiler's descriptor of a scope.  Its      *)
(* binding table maps a name to the location the compiler gave it.         *)
(***************************************************************************)
CompileTimeEnvironment(function, num_bindings, bindings) ==
    [function |-> function, num_bindings |-> num_bindings, bindings |-> bindings]

NoBindings == [n \in Names |-> None]

CompileBinding(env, slot) == [environment |-> env, binding_index |-> slot]

BlockScope == CompileTimeEnvironment(FALSE, 1, NoBindings)

FunctionScope == CompileTimeEnvironment(TRUE, 1, NoBindings)

FunctionScopeY ==
    CompileTimeEnvironment(TRUE, 2,
        [n \in Names |-> IF n = "y" THEN Some(CompileBinding(Stack(0), 1))
                         ELSE None])

GlobalScope ==
    CompileTimeEnvironment(TRUE, 1,
        [n \in Names |-> IF n = "x" THEN Some(CompileBinding(GlobalDeclarative, 0))
                         ELSE None])

is_function(compile) == compile.function

num_bindings(compile) == compile.num_bindings

get_compile_binding(compile, name) == compile.bindings[name]

(***************************************************************************)
(* DeclarativeEnvironment records and the Environment sum type.            *)
(***************************************************************************)
ThisLexical == [status |-> "Lexical"]

ThisUninitialized == [status |-> "Uninitialized"]

ThisInitialized(v) == [status |-> "Initialized", value |-> v]

NoSlots == [status |-> "None"]

DeclarativeEnvironment(kind, compile, poisoned, with, slots) ==
    [tag |-> "Declarative", kind |-> kind, compile_env |-> compile,
     bindings |-> [i \in 1..num_bindings(compile) |-> None],
     poisoned |-> poisoned, with |-> with, slots |-> slots]

ObjectEnvironment(object) == [tag |-> "Object", object |-> object]

as_declarative(env) == IF env.tag = "Declarative" THEN Some(env) ELSE None

kind(env) == [kind |-> env.kind, slots |-> env.slots]

compile_env(env) == env.compile_env

poisoned(env) == env.poisoned

with(env) == env.with

poison(env) == [env EXCEPT !.poisoned = TRUE]

len == Len(stack)


(***************************************************************************)
(* DeclarativeEnvironment's `this` interface, by kind.                     *)
(***************************************************************************)
GlobalThis == "globalThis"

has_this_binding(env) ==
    CASE env.kind = "Function" -> env.slots.status # "Lexical"
      [] env.kind \in {"Global", "Module"} -> TRUE
      [] OTHER -> FALSE

Ok(v) == [tag |-> "Ok", value |-> v]

Err(e) == [tag |-> "Err", error |-> e]

decl_get_this_binding(env) ==
    CASE env.kind = "Function" ->
            (CASE env.slots.status = "Lexical" -> Ok(None)
               [] env.slots.status = "Uninitialized" -> Err("ReferenceError")
               [] OTHER -> Ok(Some(env.slots.value)))
      [] env.kind \in {"Global", "Module"} -> Ok(Some(GlobalThis))
      [] OTHER -> Ok(None)

(***************************************************************************)
(* History of the calls made so far: the numbers of push_* and pop calls   *)
(* since construction, kept while only those have reshaped the stack.      *)
(***************************************************************************)
NoTally == [tracked |-> FALSE, push |-> 0, pop |-> 0]

CanCall == calls.tracked => calls.push + calls.pop < MaxCalls

TallyPush == IF calls.tracked THEN [calls EXCEPT !.push = @ + 1] ELSE calls

TallyPop == IF calls.tracked THEN [calls EXCEPT !.pop = @ + 1] ELSE calls

(***************************************************************************)
(* EnvironmentStack: scope management.                                     *)
(***************************************************************************)
RECURSIVE nearest_declarative(_, _, _)
nearest_declarative(s, g, i) ==
    IF i = 0 THEN g
    ELSE IF as_declarative(s[i]) # None THEN s[i]
    ELSE nearest_declarative(s, g, i - 1)

inherited_flags_top_only(s, g) ==
    LET with0 == IF s # <<>> THEN as_declarative(s[Len(s)]) = None ELSE FALSE
        env == nearest_declarative(s, g, Len(s))
    IN  [poisoned |-> poisoned(env), with |-> with0]

inherited_flags_of_global(s, g) ==
    LET with0 == IF s # <<>> THEN as_declarative(s[Len(s)]) = None ELSE FALSE
        env == nearest_declarative(s, g, Len(s))
    IN  [poisoned |-> poisoned(g), with |-> with0 \/ with(env)]

inherited_flags(s, g) ==
    LET with0 == IF s # <<>> THEN as_declarative(s[Len(s)]) = None ELSE FALSE
        env == nearest_declarative(s, g, Len(s))
    IN  [poisoned |-> poisoned(env), with |-> with0 \/ with(env)]

push_object(object) ==
    /\ Len(stack) < MaxStack
    /\ CanCall
    /\ stack' = Append(stack, ObjectEnvironment(object))
    /\ last' = [op |-> "push_object"]
    /\ calls' = TallyPush
    /\ UNCHANGED <<global, private_stack, locator, global_object, in_flight>>

push_lexical(compile_environment) ==
    /\ Len(stack) < MaxStack
    /\ CanCall
    /\ LET flags == inherited_flags(stack, global)
       IN  stack' = Append(stack,
                DeclarativeEnvironment("Lexical", compile_environment,
                                       flags.poisoned, flags.with, NoSlots))
    /\ last' = [op |-> "push_lexical", index |-> Len(stack)]
    /\ calls' = TallyPush
    /\ UNCHANGED <<global, private_stack, locator, global_object, in_flight>>

push_function(compile_environment, function_slots) ==
    /\ Len(stack) < MaxStack
    /\ CanCall
    /\ LET flags == inherited_flags(stack, global)
       IN  stack' = Append(stack,
                DeclarativeEnvironment("Function", compile_environment,
                                       flags.poisoned, flags.with, function_slots))
    /\ last' = [op |-> "push_function"]
    /\ calls' = TallyPush
    /\ UNCHANGED <<global, private_stack, locator, global_object, in_flight>>

push_module_inheriting(compile_environment) ==
    /\ Len(stack) < MaxStack
    /\ CanCall
    /\ LET flags == inherited_flags(stack, global)
       IN  stack' = Append(stack,
                DeclarativeEnvironment("Module", compile_environment,
                                       flags.poisoned, flags.with, NoSlots))
    /\ last' = [op |-> "push_module"]
    /\ calls' = TallyPush
    /\ UNCHANGED <<global, private_stack, locator, global_object, in_flight>>

push_module_initialized(compile_environment) ==
    /\ Len(stack) < MaxStack
    /\ CanCall
    /\ stack' = Append(stack,
            [DeclarativeEnvironment("Module", compile_environment, FALSE, FALSE, NoSlots)
                EXCEPT !.bindings = [i \in DOMAIN @ |-> Some("undefined")]])
    /\ last' = [op |-> "push_module"]
    /\ calls' = TallyPush
    /\ UNCHANGED <<global, private_stack, locator, global_object, in_flight>>

push_module(compile_environment) ==
    /\ Len(stack) < MaxStack
    /\ CanCall
    /\ stack' = Append(stack,
            DeclarativeEnvironment("Module", compile_environment, FALSE, FALSE, NoSlots))
    /\ last' = [op |-> "push_module"]
    /\ calls' = TallyPush
    /\ UNCHANGED <<global, private_stack, locator, global_object, in_flight>>

pop_keeps_top ==
    /\ stack # <<>>
    /\ CanCall
    /\ stack' = stack
    /\ last' = [op |-> "pop", outcome |-> "popped"]
    /\ calls' = TallyPop
    /\ UNCHANGED <<global, private_stack, locator, global_object, in_flight>>

\* pop on an empty stack fails the debug assertion; a release build pops
\* nothing.  Such a call is not counted as a pop.
pop ==
    /\ CanCall
    /\ IF stack # <<>>
       THEN /\ stack' = SubSeq(stack, 1, Len(stack) - 1)
            /\ last' = [op |-> "pop", outcome |-> "popped"]
            /\ calls' = TallyPop
       ELSE /\ stack' = stack
            /\ \E outcome \in {"panic", "nothing"} :
                   last' = [op |-> "pop", outcome |-> outcome]
            /\ calls' = calls
    /\ UNCHANGED <<global, private_stack, locator, global_object, in_flight>>

RECURSIVE Reversed(_)
Reversed(s) == IF s = <<>> THEN <<>> ELSE Append(Reversed(Tail(s)), Head(s))

pop_to_global_top_down ==
    /\ stack' = <<>>
    /\ last' = [op |-> "pop_to_global", envs |-> Reversed(stack)]
    /\ calls' = NoTally
    /\ UNCHANGED <<global, private_stack, locator, global_object, in_flight>>

pop_to_global ==
    /\ stack' = <<>>
    /\ last' = [op |-> "pop_to_global", envs |-> stack]
    /\ calls' = NoTally
    /\ UNCHANGED <<global, private_stack, locator, global_object, in_flight>>

(***************************************************************************)
(* GetThisEnvironment and GetThisBinding: top-down scans of the stack.     *)
(* get_this_environment_index is the source index of the record the scan   *)
(* returns, -1 standing for the global record.                             *)
(***************************************************************************)
RECURSIVE this_environment_scan_up(_, _)
this_environment_scan_up(s, i) ==
    IF i > Len(s) THEN -1
    ELSE IF as_declarative(s[i]) # None /\ has_this_binding(s[i]) THEN i - 1
    ELSE this_environment_scan_up(s, i + 1)

RECURSIVE this_environment_scan(_, _)
this_environment_scan(s, i) ==
    IF i = 0 THEN -1
    ELSE IF as_declarative(s[i]) # None /\ has_this_binding(s[i]) THEN i - 1
    ELSE this_environment_scan(s, i - 1)

get_this_environment_outermost(s) == this_environment_scan_up(s, 1)

get_this_environment_index(s) == this_environment_scan(s, Len(s))

get_this_environment ==
    /\ LET index == get_this_environment_index(stack)
       IN  last' = [op |-> "get_this_environment", index |-> index,
                    kind |-> IF index = -1 THEN kind(global)
                             ELSE kind(stack[index + 1])]
    /\ UNCHANGED <<stack, global, private_stack, locator, calls, global_object, in_flight>>

RECURSIVE this_binding_scan_no_error(_, _)
this_binding_scan_no_error(s, i) ==
    IF i = 0 THEN Ok(None)
    ELSE IF as_declarative(s[i]) = None THEN this_binding_scan_no_error(s, i - 1)
    ELSE LET this == decl_get_this_binding(s[i])
         IN  IF this.tag = "Ok" /\ this.value # None THEN this
             ELSE this_binding_scan_no_error(s, i - 1)

RECURSIVE this_binding_scan(_, _)
this_binding_scan(s, i) ==
    IF i = 0 THEN Ok(None)
    ELSE IF as_declarative(s[i]) = None THEN this_binding_scan(s, i - 1)
    ELSE LET this == decl_get_this_binding(s[i])
         IN  IF this.tag = "Err" THEN this
             ELSE IF this.value # None THEN this
             ELSE this_binding_scan(s, i - 1)

get_this_binding_swallowing(s) == this_binding_scan_no_error(s, Len(s))

get_this_binding_or_global(s) ==
    LET this == this_binding_scan(s, Len(s))
    IN  IF this = Ok(None) THEN decl_get_this_binding(global) ELSE this

get_this_binding_of(s) == this_binding_scan(s, Len(s))

get_this_binding ==
    /\ last' = [op |-> "get_this_binding", result |-> get_this_binding_of(stack)]
    /\ UNCHANGED <<stack, global, private_stack, locator, calls, global_object, in_flight>>

\* FunctionEnvironment::bind_this_value: initializes the `this` of the
\* function record at `index` (a derived constructor's super() call).
bind_this_value(index, value) ==
    /\ index < Len(stack)
    /\ as_declarative(stack[index + 1]) # None
    /\ stack[index + 1].kind = "Function"
    /\ stack[index + 1].slots.status = "Uninitialized"
    /\ stack' = [stack EXCEPT ![index + 1].slots = ThisInitialized(value)]
    /\ last' = [op |-> "bind_this_value", index |-> index]
    /\ UNCHANGED <<global, private_stack, locator, calls, global_object, in_flight>>

(***************************************************************************)
(* poison_until_last_function: top-down, poisoning every declarative       *)
(* record up to the first one whose compile environment is a function      *)
(* scope, and the global record when there is none.                        *)
(***************************************************************************)
RECURSIVE poison_walk_past_functions(_, _, _)
poison_walk_past_functions(s, g, i) ==
    IF i = 0 THEN [stack |-> s, global |-> poison(g)]
    ELSE IF as_declarative(s[i]) = None THEN poison_walk_past_functions(s, g, i - 1)
    ELSE poison_walk_past_functions([s EXCEPT ![i] = poison(s[i])], g, i - 1)

RECURSIVE poison_walk(_, _, _)
poison_walk(s, g, i) ==
    IF i = 0 THEN [stack |-> s, global |-> poison(g)]
    ELSE IF as_declarative(s[i]) = None THEN poison_walk(s, g, i - 1)
    ELSE LET poisoned_stack == [s EXCEPT ![i] = poison(s[i])]
         IN  IF is_function(compile_env(s[i]))
             THEN [stack |-> poisoned_stack, global |-> g]
             ELSE poison_walk(poisoned_stack, g, i - 1)

poison_everything(s, g) == poison_walk_past_functions(s, g, Len(s))

poison_forgetting_with(s, g) ==
    LET after == poison_walk(s, g, Len(s))
    IN  [stack |-> [k \in DOMAIN after.stack |->
                       IF as_declarative(after.stack[k]) # None /\ poisoned(after.stack[k])
                       THEN [after.stack[k] EXCEPT !.with = FALSE]
                       ELSE after.stack[k]],
         global |-> after.global]

poison_until_last_function_of(s, g) == poison_walk(s, g, Len(s))

poison_until_last_function ==
    /\ LET after == poison_until_last_function_of(stack, global)
       IN  /\ stack' = after.stack
           /\ global' = after.global
    /\ last' = [op |-> "poison_until_last_function"]
    /\ UNCHANGED <<private_stack, locator, calls, global_object, in_flight>>

(***************************************************************************)
(* The private environment stack.                                          *)
(***************************************************************************)
PrivateEnvironment(id, descriptions) == [id |-> id, descriptions |-> descriptions]

PrivateName(description, id) == [description |-> description, id |-> id]

Contains(seq, e) == \E k \in 1..Len(seq) : seq[k] = e

push_private(env) ==
    /\ Len(private_stack) < MaxPrivate
    /\ private_stack' = Append(private_stack, env)
    /\ last' = [op |-> "push_private", len |-> Len(stack)]
    /\ UNCHANGED <<stack, global, locator, calls, global_object, in_flight>>

pop_private ==
    /\ private_stack' = IF private_stack = <<>> THEN <<>>
                        ELSE SubSeq(private_stack, 1, Len(private_stack) - 1)
    /\ last' = [op |-> "pop_private", len |-> Len(stack)]
    /\ UNCHANGED <<stack, global, locator, calls, global_object, in_flight>>

RECURSIVE resolve_scan_up(_, _, _)
resolve_scan_up(ps, identifier, i) ==
    IF i > Len(ps) THEN None
    ELSE IF Contains(ps[i].descriptions, identifier)
         THEN Some(PrivateName(identifier, ps[i].id))
    ELSE resolve_scan_up(ps, identifier, i + 1)

RECURSIVE resolve_scan(_, _, _)
resolve_scan(ps, identifier, i) ==
    IF i = 0 THEN None
    ELSE IF Contains(ps[i].descriptions, identifier)
         THEN Some(PrivateName(identifier, ps[i].id))
    ELSE resolve_scan(ps, identifier, i - 1)

resolve_private_identifier_outermost(ps, identifier) ==
    resolve_scan_up(ps, identifier, 1)

resolve_private_identifier_of(ps, identifier) ==
    resolve_scan(ps, identifier, Len(ps))

resolve_private_identifier(identifier) ==
    /\ last' = [op |-> "resolve_private_identifier", identifier |-> identifier,
                result |-> resolve_private_identifier_of(private_stack, identifier)]
    /\ UNCHANGED <<stack, global, private_stack, locator, calls, global_object, in_flight>>

(***************************************************************************)
(* EnvironmentStack::private_name_descriptions: the private stack walked   *)
(* from the innermost environment, each environment's descriptions in      *)
(* their order, a description pushed unless the result already holds it.   *)
(***************************************************************************)
RECURSIVE push_new_names(_, _, _)
push_new_names(names, descriptions, k) ==
    IF k > Len(descriptions) THEN names
    ELSE push_new_names(IF ~Contains(names, descriptions[k])
                        THEN Append(names, descriptions[k])
                        ELSE names,
                        descriptions, k + 1)

RECURSIVE names_scan_up(_, _, _)
names_scan_up(ps, names, i) ==
    IF i > Len(ps) THEN names
    ELSE names_scan_up(ps, push_new_names(names, ps[i].descriptions, 1), i + 1)

RECURSIVE names_scan(_, _, _)
names_scan(ps, names, i) ==
    IF i = 0 THEN names
    ELSE names_scan(ps, push_new_names(names, ps[i].descriptions, 1), i - 1)

private_name_descriptions_outermost(ps) == names_scan_up(ps, <<>>, 1)

private_name_descriptions_of(ps) == names_scan(ps, <<>>, Len(ps))

private_name_descriptions ==
    /\ last' = [op |-> "private_name_descriptions",
                names |-> private_name_descriptions_of(private_stack)]
    /\ UNCHANGED <<stack, global, private_stack, locator, calls, global_object, in_flight>>

(***************************************************************************)
(* The object model as the environments use it.  An object has named       *)
(* properties, an @@unscopables value that is either no object (None) or   *)
(* an object giving each name a truthiness, and may run user code that     *)
(* throws when asked for a property (a proxy trap).                        *)
(***************************************************************************)
JsObject(properties, unscopables, throws) ==
    [properties |-> properties, unscopables |-> unscopables, throws |-> throws]

has_property(o, key) ==
    IF o.throws THEN Err("UserError") ELSE Ok(o.properties[key] # None)

unscopables_as_object(o) == o.unscopables

to_boolean(v) == v

object_get(o, key) ==
    IF o.properties[key] # None THEN o.properties[key][1] ELSE "undefined"

object_try_get(o, key) == o.properties[key]

ObjX == JsObject([n \in Names |-> IF n = "x" THEN Some("42") ELSE None], None, FALSE)

ObjXUnscopable ==
    JsObject([n \in Names |-> IF n = "x" THEN Some("42") ELSE None],
             Some([n \in Names |-> n = "x"]), FALSE)

ObjThrows == JsObject([n \in Names |-> None], None, TRUE)

GlobalObjectValue ==
    JsObject([n \in Names |-> IF n = "y" THEN Some("7") ELSE None], None, FALSE)

(***************************************************************************)
(* Context::environment_expect and Context::find_runtime_binding.          *)
(***************************************************************************)
environment_expect(s, index) == s[index + 1]

current_declarative_ref_skipping(s, g) == Some(nearest_declarative(s, g, Len(s)))

current_declarative_ref(s, g) ==
    IF s # <<>> THEN as_declarative(s[Len(s)]) ELSE Some(g)

rewrite_environment_only(L, b) == set_environment(L, b.environment)

rewrite(L, b) ==
    [set_environment(L, b.environment) EXCEPT !.binding_index = b.binding_index]

Outcome(result, L, visited, ended) ==
    [result |-> result, locator |-> L, visited |-> visited, ended |-> ended]

\* One step of the scan on a declarative record: "Rewrite" to its compile
\* environment's binding, "Return" leaving the locator, or "Continue".
declarative_step(env, name) ==
    IF poisoned(env)
    THEN LET compile == compile_env(env)
         IN  IF is_function(compile) /\ get_compile_binding(compile, name) # None
             THEN "Rewrite"
             ELSE "Continue"
    ELSE IF ~with(env) THEN "Return"
    ELSE "Continue"

object_step_ignoring_unscopables(o, key) ==
    LET has == has_property(o, key)
    IN  IF has.tag = "Err" THEN "Err"
        ELSE IF has.value THEN "Found"
        ELSE "Continue"

\* One step of the scan on an object environment: "Err" when the object
\* throws, "Found" when it holds the name and @@unscopables does not hide
\* it, "Continue" otherwise.
object_step(o, key) ==
    LET has == has_property(o, key)
    IN  IF has.tag = "Err" THEN "Err"
        ELSE IF has.value
             THEN LET unscopables == unscopables_as_object(o)
                  IN  IF unscopables # None /\ to_boolean(unscopables[1][key])
                      THEN "Continue"
                      ELSE "Found"
        ELSE "Continue"

\* The scan of indices index, index - 1, ..., min_index.  `visited` collects
\* the indices of the objects called into; `ended` tells that the scan ran
\* past min_index without returning.
RECURSIVE runtime_binding_scan(_, _, _, _, _)
runtime_binding_scan(s, L, index, min_index, visited) ==
    IF index < min_index THEN Outcome(Ok(None), L, visited, TRUE)
    ELSE LET env == environment_expect(s, index)
         IN  IF env.tag = "Declarative"
             THEN LET step == declarative_step(env, L.name)
                  IN  CASE step = "Rewrite" ->
                             Outcome(Ok(None),
                                 rewrite(L, get_compile_binding(compile_env(env),
                                                                L.name)[1]),
                                 visited, FALSE)
                        [] step = "Return" -> Outcome(Ok(None), L, visited, FALSE)
                        [] OTHER ->
                             runtime_binding_scan(s, L, index - 1, min_index, visited)
             ELSE LET step == object_step(env.object, L.name)
                      seen == visited \cup {index}
                  IN  CASE step = "Err" -> Outcome(Err("UserError"), L, seen, FALSE)
                        [] step = "Found" ->
                             Outcome(Ok(None), set_environment(L, Stack(index)),
                                     seen, FALSE)
                        [] OTHER ->
                             runtime_binding_scan(s, L, index - 1, min_index, seen)

slow_path(s, g, L) ==
    LET loc == environment(L)
        is_global_locator == loc.tag \in {"GlobalObject", "GlobalDeclarative"}
        min_index == IF is_global_locator THEN 0 ELSE loc.index
        max_index == Len(s)
        scan == runtime_binding_scan(s, L, max_index - 1, min_index, {})
    IN  IF scan.ended /\ is_global_locator /\ poisoned(g)
        THEN LET b == get_compile_binding(compile_env(g), L.name)
             IN  IF b # None THEN [scan EXCEPT !.locator = rewrite(L, b[1])]
                 ELSE scan
        ELSE scan

\* A resolution that knows no declarative records: the innermost object
\* environment at or above the locator's index that holds the name wins.
find_runtime_binding_objects_only(s, g, L) ==
    LET loc == environment(L)
        min_index == IF loc.tag = "Stack" THEN loc.index ELSE 0
        holders == {i \in min_index..(Len(s) - 1) :
                       /\ s[i + 1].tag = "Object"
                       /\ object_step(s[i + 1].object, L.name) = "Found"}
    IN  IF holders = {} THEN Outcome(Ok(None), L, {}, TRUE)
        ELSE LET top == CHOOSE i \in holders : \A j \in holders : j <= i
             IN  Outcome(Ok(None), set_environment(L, Stack(top)), {top}, FALSE)

find_runtime_binding_of(s, g, L) ==
    LET env == current_declarative_ref(s, g)
    IN  IF env # None /\ ~with(env[1]) /\ ~poisoned(env[1])
        THEN Outcome(Ok(None), L, {}, FALSE)
        ELSE slow_path(s, g, L)

find_runtime_binding(L) ==
    /\ LET found == find_runtime_binding_of(stack, global, L)
       IN  /\ locator' = found.locator
           /\ last' = [op |-> "find_runtime_binding", locator |-> L,
                       result |-> found.result.tag, visited |-> found.visited]
    /\ UNCHANGED <<stack, global, private_stack, calls, global_object, in_flight>>

(***************************************************************************)
(* find_runtime_binding, one loop iteration at a time.  The reads of an    *)
(* object environment (has_property, the get of @@unscopables and the get  *)
(* on it) may call into user code, which runs on the same EnvironmentStack *)
(* before control returns to the scan.  max_index is read once, before the *)
(* loop; `next` is the exclusive upper end of the indices still to visit,  *)
(* and the object being read is a clone held by the call.                  *)
(***************************************************************************)
Scanning(is_global_locator, min_index, max_index, next) ==
    [at |-> "loop", global |-> is_global_locator, min_index |-> min_index,
     max_index |-> max_index, next |-> next]

InUserCode(position, index, o) ==
    [at |-> "user", global |-> position.global, min_index |-> position.min_index,
     max_index |-> position.max_index, index |-> index, o |-> o]

in_range_below_top(s, index) == index + 1 < Len(s)

\* stack.get(index as usize) is Some
in_range(s, index) == index < Len(s)

\* The call returns `result`, having gone down to `index`.
Returns(result, L, max_index, index) ==
    /\ locator' = L
    /\ in_flight' = Idle
    /\ last' = [op |-> "find_runtime_binding", result |-> result,
                max_index |-> max_index, index |-> index]

find_runtime_binding_enter(L) ==
    /\ in_flight = Idle
    /\ LET env == current_declarative_ref(stack, global)
           loc == environment(L)
           is_global_locator == loc.tag \in {"GlobalObject", "GlobalDeclarative"}
           min_index == IF is_global_locator THEN 0 ELSE loc.index
           max_index == Len(stack)
       IN  IF env # None /\ ~with(env[1]) /\ ~poisoned(env[1])
           THEN Returns("Ok", L, max_index, max_index)
           ELSE /\ locator' = L
                /\ in_flight' = Scanning(is_global_locator, min_index, max_index,
                                         max_index)
                /\ last' = [op |-> "find_runtime_binding", result |-> "Running",
                            max_index |-> max_index, index |-> max_index]
    /\ UNCHANGED <<stack, global, private_stack, calls, global_object>>

\* The code after the loop: a poisoned global record re-resolves a global
\* locator through its compile environment.
after_loop(g, L, is_global_locator) ==
    IF is_global_locator /\ poisoned(g)
    THEN LET b == get_compile_binding(compile_env(g), L.name)
         IN  IF b # None THEN rewrite(L, b[1]) ELSE L
    ELSE L

find_runtime_binding_iterate ==
    /\ in_flight.at = "loop"
    /\ IF in_flight.next <= in_flight.min_index
       THEN Returns("Ok", after_loop(global, locator, in_flight.global),
                    in_flight.max_index, in_flight.next)
       ELSE LET index == in_flight.next - 1
            IN  IF ~in_range(stack, index)
                THEN Returns("Panic", locator, in_flight.max_index, index)
                ELSE LET env == environment_expect(stack, index)
                     IN  IF env.tag = "Declarative"
                         THEN LET step == declarative_step(env, locator.name)
                              IN  CASE step = "Rewrite" ->
                                         Returns("Ok",
                                             rewrite(locator,
                                                 get_compile_binding(
                                                     compile_env(env),
                                                     locator.name)[1]),
                                             in_flight.max_index, index)
                                    [] step = "Return" ->
                                         Returns("Ok", locator,
                                                 in_flight.max_index, index)
                                    [] OTHER ->
                                         /\ in_flight' =
                                                [in_flight EXCEPT !.next = index]
                                         /\ UNCHANGED <<locator, last>>
                         ELSE /\ in_flight' = InUserCode(in_flight, index, env.object)
                              /\ UNCHANGED <<locator, last>>
    /\ UNCHANGED <<stack, global, private_stack, calls, global_object>>

\* Control returns from the reads of the object at in_flight.index.
find_runtime_binding_resume ==
    /\ in_flight.at = "user"
    /\ LET step == object_step(in_flight.o, locator.name)
       IN  CASE step = "Err" ->
                  Returns("Err", locator, in_flight.max_index, in_flight.index)
             [] step = "Found" ->
                  Returns("Ok", set_environment(locator, Stack(in_flight.index)),
                          in_flight.max_index, in_flight.index)
             [] OTHER ->
                  /\ in_flight' = Scanning(in_flight.global, in_flight.min_index,
                                           in_flight.max_index, in_flight.index)
                  /\ UNCHANGED <<locator, last>>
    /\ UNCHANGED <<stack, global, private_stack, calls, global_object>>

(***************************************************************************)
(* Context::get_binding.  DeclarativeEnvironment::get panics on a slot     *)
(* that is out of range, environment_expect on an index out of range, and  *)
(* Object::get returns undefined for a missing property.                   *)
(***************************************************************************)
Panic == [tag |-> "Panic"]

declarative_get(env, slot) ==
    IF slot + 1 \in DOMAIN env.bindings THEN Ok(env.bindings[slot + 1]) ELSE Panic

get_binding_of(s, g, L) ==
    LET loc == environment(L)
    IN  CASE loc.tag = "GlobalObject" -> Ok(object_try_get(global_object, L.name))
          [] loc.tag = "GlobalDeclarative" -> declarative_get(g, binding_index(L))
          [] OTHER ->
                IF loc.index >= Len(s) THEN Panic
                ELSE LET env == environment_expect(s, loc.index)
                     IN  IF env.tag = "Declarative"
                         THEN declarative_get(env, binding_index(L))
                         ELSE IF env.object.throws THEN Err("UserError")
                         ELSE Ok(Some(object_get(env.object, L.name)))

get_binding ==
    /\ last' = [op |-> "get_binding", locator |-> locator,
                result |-> get_binding_of(stack, global, locator)]
    /\ UNCHANGED <<stack, global, private_stack, locator, calls, global_object, in_flight>>

(***************************************************************************)
(* Direct slot writes: put_lexical_value and put_value_if_uninitialized.   *)
(* Both pick the record from a BindingLocatorEnvironment (the global       *)
(* record for GlobalObject as well as for GlobalDeclarative) and panic     *)
(* when the stack index is out of range or names an object environment;    *)
(* DeclarativeEnvironment::set and ::get panic on a slot out of range.     *)
(***************************************************************************)
Values == {"1", "2"}

has_slot(env, slot) == slot + 1 \in DOMAIN env.bindings

declarative_set(env, slot, value) == [env EXCEPT !.bindings[slot + 1] = Some(value)]

Written(outcome, s, g) == [outcome |-> outcome, stack |-> s, global |-> g]

\* The record the write goes to: "Global", the stack index, or a panic.
slot_owner(s, target) ==
    CASE target.tag \in {"GlobalObject", "GlobalDeclarative"} -> [tag |-> "Global"]
      [] OTHER ->
            IF /\ target.index < Len(s)
               /\ as_declarative(s[target.index + 1]) # None
            THEN [tag |-> "Stack", index |-> target.index]
            ELSE Panic

owner_record(s, g, owner) ==
    IF owner.tag = "Global" THEN g ELSE s[owner.index + 1]

set_in_owner(s, g, owner, slot, value) ==
    IF owner.tag = "Global"
    THEN Written("ok", s, declarative_set(g, slot, value))
    ELSE Written("ok", [s EXCEPT ![owner.index + 1] = declarative_set(@, slot, value)], g)

put_value_always(s, g, target, slot, value) ==
    LET owner == slot_owner(s, target)
    IN  IF owner = Panic THEN Written("panic", s, g)
        ELSE IF ~has_slot(owner_record(s, g, owner), slot) THEN Written("panic", s, g)
        ELSE set_in_owner(s, g, owner, slot, value)

put_value_if_unset(s, g, target, slot, value) ==
    LET owner == slot_owner(s, target)
    IN  IF owner = Panic THEN Written("panic", s, g)
        ELSE IF ~has_slot(owner_record(s, g, owner), slot) THEN Written("panic", s, g)
        ELSE IF owner_record(s, g, owner).bindings[slot + 1] = None
             THEN set_in_owner(s, g, owner, slot, value)
        ELSE Written("ok", s, g)

put_lexical_value_of(s, g, target, slot, value) ==
    LET owner == slot_owner(s, target)
    IN  IF owner = Panic THEN Written("panic", s, g)
        ELSE IF ~has_slot(owner_record(s, g, owner), slot) THEN Written("panic", s, g)
        ELSE set_in_owner(s, g, owner, slot, value)

put_lexical_value(target, slot, value) ==
    /\ LET after == put_lexical_value_of(stack, global, target, slot, value)
       IN  /\ stack' = after.stack
           /\ global' = after.global
           /\ last' = [op |-> "put_lexical_value", environment |-> target,
                       binding_index |-> slot, value |-> value,
                       outcome |-> after.outcome]
    /\ UNCHANGED <<private_stack, locator, calls, global_object, in_flight>>

put_value_if_uninitialized_of(s, g, target, slot, value) ==
    LET owner == slot_owner(s, target)
    IN  IF owner = Panic THEN Written("panic", s, g)
        ELSE IF ~has_slot(owner_record(s, g, owner), slot) THEN Written("panic", s, g)
        ELSE IF declarative_get(owner_record(s, g, owner), slot) = Ok(None)
             THEN set_in_owner(s, g, owner, slot, value)
        ELSE Written("ok", s, g)

put_value_if_uninitialized(target, slot, value) ==
    /\ LET after == put_value_if_uninitialized_of(stack, global, target, slot, value)
       IN  /\ stack' = after.stack
           /\ global' = after.global
           /\ last' = [op |-> "put_value_if_uninitialized",
                       environment |-> target, binding_index |-> slot,
                       value |-> value, outcome |-> after.outcome]
    /\ UNCHANGED <<private_stack, locator, calls, global_object, in_flight>>

(***************************************************************************)
(* Context::is_initialized_binding, ::set_binding and ::delete_binding.    *)
(* Object [[Set]] writes the property (creating it when absent) and        *)
(* [[Delete]] removes it, both on an ordinary object and whatever `strict` *)
(* is; an object that runs throwing user code fails every call.            *)
(***************************************************************************)
object_set(o, key, value, strict) ==
    IF o.throws THEN Err("UserError")
    ELSE Ok([o EXCEPT !.properties[key] = Some(value)])

object_delete(o, key) ==
    IF o.throws THEN Err("UserError")
    ELSE Ok([o EXCEPT !.properties[key] = None])

is_some(got) == IF got = Panic THEN Panic ELSE Ok(got.value # None)

is_initialized_binding_of(s, g, L) ==
    LET loc == environment(L)
    IN  CASE loc.tag = "GlobalObject" -> has_property(global_object, L.name)
          [] loc.tag = "GlobalDeclarative" -> is_some(declarative_get(g, binding_index(L)))
          [] OTHER ->
                IF loc.index >= Len(s) THEN Panic
                ELSE LET env == environment_expect(s, loc.index)
                     IN  IF env.tag = "Declarative"
                         THEN is_some(declarative_get(env, binding_index(L)))
                         ELSE has_property(env.object, L.name)

is_initialized_binding(L) ==
    /\ last' = [op |-> "is_initialized_binding", locator |-> L,
                result |-> is_initialized_binding_of(stack, global, L)]
    /\ UNCHANGED <<stack, global, private_stack, locator, calls, global_object, in_flight>>

Effect(result, s, g, o) ==
    [result |-> result, stack |-> s, global |-> g, global_object |-> o]

set_binding_of(s, g, L, value, strict) ==
    LET loc == environment(L)
        slot == binding_index(L)
    IN  CASE loc.tag = "GlobalObject" ->
                LET set == object_set(global_object, L.name, value, strict)
                IN  IF set.tag = "Err" THEN Effect(set, s, g, global_object)
                    ELSE Effect(Ok(None), s, g, set.value)
          [] loc.tag = "GlobalDeclarative" ->
                IF has_slot(g, slot)
                THEN Effect(Ok(None), s, declarative_set(g, slot, value), global_object)
                ELSE Effect(Panic, s, g, global_object)
          [] OTHER ->
                IF loc.index >= Len(s) THEN Effect(Panic, s, g, global_object)
                ELSE LET env == environment_expect(s, loc.index)
                     IN  IF env.tag = "Declarative"
                         THEN IF has_slot(env, slot)
                              THEN Effect(Ok(None),
                                       [s EXCEPT ![loc.index + 1] =
                                            declarative_set(@, slot, value)],
                                       g, global_object)
                              ELSE Effect(Panic, s, g, global_object)
                         ELSE LET set == object_set(env.object, L.name, value, strict)
                              IN  IF set.tag = "Err"
                                  THEN Effect(set, s, g, global_object)
                                  ELSE Effect(Ok(None),
                                           [s EXCEPT ![loc.index + 1].object = set.value],
                                           g, global_object)

set_binding(L, value, strict) ==
    /\ LET after == set_binding_of(stack, global, L, value, strict)
       IN  /\ stack' = after.stack
           /\ global' = after.global
           /\ global_object' = after.global_object
           /\ last' = [op |-> "set_binding", locator |-> L, value |-> value,
                       result |-> after.result]
    /\ UNCHANGED <<private_stack, locator, calls, in_flight>>

\* `deleted` names the object whose [[Delete]] the call delegated to:
\* GlobalObject, Stack(index), or None when no object was called.
Deletion(result, s, o, deleted) ==
    [result |-> result, stack |-> s, global_object |-> o, deleted |-> deleted]

declarative_delete_clearing(s, index, slot) ==
    IF has_slot(s[index + 1], slot)
    THEN Deletion(Ok(TRUE), [s EXCEPT ![index + 1].bindings[slot + 1] = None],
                  global_object, None)
    ELSE Deletion(Ok(FALSE), s, global_object, None)

\* A declarative record on the stack: nothing is deleted.
declarative_delete(s, index, slot) == Deletion(Ok(FALSE), s, global_object, None)

delete_binding_of(s, L) ==
    LET loc == environment(L)
    IN  CASE loc.tag = "GlobalObject" ->
                LET del == object_delete(global_object, L.name)
                IN  IF del.tag = "Err"
                    THEN Deletion(del, s, global_object, Some(GlobalObject))
                    ELSE Deletion(Ok(TRUE), s, del.value, Some(GlobalObject))
          [] loc.tag = "GlobalDeclarative" -> Deletion(Ok(FALSE), s, global_object, None)
          [] OTHER ->
                IF loc.index >= Len(s) THEN Deletion(Panic, s, global_object, None)
                ELSE LET env == environment_expect(s, loc.index)
                     IN  IF env.tag = "Declarative"
                         THEN declarative_delete(s, loc.index, binding_index(L))
                         ELSE LET del == object_delete(env.object, L.name)
                              IN  IF del.tag = "Err"
                                  THEN Deletion(del, s, global_object, Some(loc))
                                  ELSE Deletion(Ok(TRUE),
                                           [s EXCEPT ![loc.index + 1].object = del.value],
                                           global_object, Some(loc))

delete_binding(L) ==
    /\ LET after == delete_binding_of(stack, L)
       IN  /\ stack' = after.stack
           /\ global_object' = after.global_object
           /\ last' = [op |-> "delete_binding", locator |-> L,
                       result |-> after.result, deleted |-> after.deleted]
    /\ UNCHANGED <<global, private_stack, locator, calls, in_flight>>

(***************************************************************************)
(* Context::this_from_object_environment_binding: the scan of              *)
(* find_runtime_binding over again, returning the object instead of        *)
(* rewriting the locator.  `index` is the stack index of the object        *)
(* returned, -1 when none is.                                              *)
(***************************************************************************)
ThisObject(result, index) == [result |-> result, index |-> index]

\* One step of the scan on a declarative record: "Break" or "Continue".
this_declarative_step(env, name) ==
    IF poisoned(env)
    THEN LET compile == compile_env(env)
         IN  IF is_function(compile) /\ get_compile_binding(compile, name) # None
             THEN "Break"
             ELSE "Continue"
    ELSE IF ~with(env) THEN "Break"
    ELSE "Continue"

RECURSIVE this_object_scan(_, _, _, _)
this_object_scan(s, L, index, min_index) ==
    IF index < min_index THEN ThisObject(Ok(None), -1)
    ELSE LET env == environment_expect(s, index)
         IN  IF env.tag = "Declarative"
             THEN IF this_declarative_step(env, L.name) = "Break"
                  THEN ThisObject(Ok(None), -1)
                  ELSE this_object_scan(s, L, index - 1, min_index)
             ELSE LET step == object_step(env.object, L.name)
                  IN  CASE step = "Err" -> ThisObject(Err("UserError"), -1)
                        [] step = "Found" -> ThisObject(Ok(Some(env.object)), index)
                        [] OTHER -> this_object_scan(s, L, index - 1, min_index)

this_from_object_environment_binding_as_find(s, g, L) ==
    LET env == current_declarative_ref(s, g)
        loc == environment(L)
        min_index == IF loc.tag = "Stack" THEN loc.index ELSE 0
    IN  IF env # None /\ ~with(env[1]) /\ ~poisoned(env[1]) THEN ThisObject(Ok(None), -1)
        ELSE this_object_scan(s, L, Len(s) - 1, min_index)

this_from_object_environment_binding_of(s, g, L) ==
    LET env == current_declarative_ref(s, g)
        loc == environment(L)
        min_index == IF loc.tag = "Stack" THEN loc.index ELSE 0
    IN  IF env # None /\ ~with(env[1]) THEN ThisObject(Ok(None), -1)
        ELSE this_object_scan(s, L, Len(s) - 1, min_index)

this_from_object_environment_binding(L) ==
    /\ LET found == this_from_object_environment_binding_of(stack, global, L)
       IN  last' = [op |-> "this_from_object_environment_binding", locator |-> L,
                    result |-> found.result, index |-> found.index]
    /\ UNCHANGED <<stack, global, private_stack, locator, calls, global_object, in_flight>>

(***************************************************************************)
(* Raw shape manipulation (truncate, extend), replace_global, and the      *)
(* queries current_declarative_ref and current_compile_environment.        *)
(***************************************************************************)
truncate(n) ==
    /\ stack' = IF n < Len(stack) THEN SubSeq(stack, 1, n) ELSE stack
    /\ last' = [op |-> "truncate", len |-> n]
    /\ calls' = NoTally
    /\ UNCHANGED <<global, private_stack, locator, global_object, in_flight>>

extend(other) ==
    /\ Len(stack) + Len(other) <= MaxStack
    /\ stack' = stack \o other
    /\ last' = [op |-> "extend", other |-> other]
    /\ calls' = NoTally
    /\ UNCHANGED <<global, private_stack, locator, global_object, in_flight>>

\* The assertion on the kind fails for a record that is not Global; the
\* call then panics and nothing is replaced.
replace_global_unchecked(g) ==
    /\ global' = g
    /\ last' = [op |-> "replace_global", global |-> g, outcome |-> "replaced"]
    /\ UNCHANGED <<stack, private_stack, locator, calls, global_object, in_flight>>

replace_global(g) ==
    /\ IF g.kind = "Global"
       THEN /\ global' = g
            /\ last' = [op |-> "replace_global", global |-> g, outcome |-> "replaced"]
       ELSE /\ global' = global
            /\ last' = [op |-> "replace_global", global |-> g, outcome |-> "panic"]
    /\ UNCHANGED <<stack, private_stack, locator, calls, global_object, in_flight>>

query_current_declarative_ref ==
    /\ last' = [op |-> "current_declarative_ref",
                result |-> current_declarative_ref(stack, global)]
    /\ UNCHANGED <<stack, global, private_stack, locator, calls, global_object, in_flight>>

RECURSIVE last_declarative(_, _)
last_declarative(s, i) ==
    IF i = 0 THEN None
    ELSE IF as_declarative(s[i]) # None THEN Some(s[i])
    ELSE last_declarative(s, i - 1)

current_compile_environment_of(s, g) ==
    LET env == last_declarative(s, Len(s))
    IN  IF env # None THEN compile_env(env[1]) ELSE compile_env(g)

current_compile_environment ==
    /\ last' = [op |-> "current_compile_environment",
                result |-> current_compile_environment_of(stack, global)]
    /\ UNCHANGED <<stack, global, private_stack, locator, calls, global_object, in_flight>>

(***************************************************************************)
(* BindingLocator constructors and set_environment, applied to the         *)
(* locator under test.                                                     *)
(***************************************************************************)
new_declarative(name, environment_index, slot) ==
    /\ locator' = declarative(name, environment_index, slot)
    /\ last' = [op |-> "declarative", name |-> name,
                environment_index |-> environment_index, binding_index |-> slot]
    /\ UNCHANGED <<stack, global, private_stack, calls, global_object, in_flight>>

new_global(name) ==
    /\ locator' = global_locator(name)
    /\ last' = [op |-> "global", name |-> name]
    /\ UNCHANGED <<stack, global, private_stack, calls, global_object, in_flight>>

retarget(env) ==
    /\ locator' = set_environment(locator, env)
    /\ last' = [op |-> "set_environment", from |-> locator, environment |-> env]
    /\ UNCHANGED <<stack, global, private_stack, calls, global_object, in_flight>>

(***************************************************************************)
(* Construction: EnvironmentStack::new(global) with a record of kind       *)
(* Global, an empty stack and an empty private stack.                      *)
(***************************************************************************)
GlobalEnvironment(bindings) ==
    [tag |-> "Declarative", kind |-> "Global", compile_env |-> GlobalScope,
     bindings |-> bindings, poisoned |-> FALSE, with |-> FALSE, slots |-> NoSlots]

new(g) ==
    /\ g.kind = "Global"
    /\ stack = <<>>
    /\ global = g
    /\ private_stack = <<>>
    /\ last = [op |-> "new"]

Init ==
    /\ new(GlobalEnvironment(<<None>>))
    /\ global_object = GlobalObjectValue
    /\ in_flight = Idle
    /\ locator = global_locator("x")
    /\ calls = NoTally

(***************************************************************************)
(* Spec: scopes pushed, popped and poisoned (the poisoned and with flags). *)
(***************************************************************************)
Next ==
    \/ push_object(ObjX)
    \/ \E c \in {BlockScope, FunctionScope} : push_lexical(c)
    \/ push_function(FunctionScope, ThisLexical)
    \/ push_module(BlockScope)
    \/ pop
    \/ poison_until_last_function

Spec == Init /\ [][Next]_vars

(***************************************************************************)
(* SpecLen: the calls that change the number of environments, tallied.     *)
(***************************************************************************)
InitLen ==
    /\ new(GlobalEnvironment(<<None>>))
    /\ global_object = GlobalObjectValue
    /\ in_flight = Idle
    /\ locator = global_locator("x")
    /\ calls = [tracked |-> TRUE, push |-> 0, pop |-> 0]

NextLen ==
    \/ push_object(ObjX)
    \/ push_lexical(BlockScope)
    \/ push_function(FunctionScope, ThisLexical)
    \/ push_module(BlockScope)
    \/ pop
    \/ pop_to_global
    \/ push_private(PrivateEnvironment(1, <<"#x">>))
    \/ pop_private

SpecLen == InitLen /\ [][NextLen]_vars

(***************************************************************************)
(* SpecLocator: the BindingLocator constructors and accessors on their     *)
(* own.                                                                    *)
(***************************************************************************)
LocatorEnvironments ==
    {GlobalObject, GlobalDeclarative} \cup {Stack(i) : i \in 0..MaxEnvIdx}

NextLocator ==
    \/ \E n \in Names, i \in 0..MaxEnvIdx, slot \in 0..MaxSlot :
           new_declarative(n, i, slot)
    \/ \E n \in Names : new_global(n)
    \/ \E env \in LocatorEnvironments : retarget(env)

SpecLocator == Init /\ [][NextLocator]_vars

(***************************************************************************)
(* SpecThis: function, block, module and object scopes and the `this`      *)
(* lookups.                                                                *)
(***************************************************************************)
NextThis ==
    \/ push_object(ObjX)
    \/ push_lexical(BlockScope)
    \/ \E slots \in {ThisLexical, ThisUninitialized, ThisInitialized("thisA")} :
           push_function(FunctionScope, slots)
    \/ push_module(BlockScope)
    \/ pop
    \/ \E i \in 0..(MaxStack - 1) : bind_this_value(i, "thisB")
    \/ get_this_environment
    \/ get_this_binding

SpecThis == Init /\ [][NextThis]_vars

(***************************************************************************)
(* SpecPrivate: the private environment stack.                             *)
(***************************************************************************)
PrivateEnvironments ==
    {PrivateEnvironment(1, <<"#x">>), PrivateEnvironment(2, <<"#x", "#y">>),
     PrivateEnvironment(3, <<"#y">>), PrivateEnvironment(4, <<>>)}

PrivateIdentifiers == {"#x", "#y", "#z"}

NextPrivate ==
    \/ \E env \in PrivateEnvironments : push_private(env)
    \/ pop_private
    \/ \E n \in PrivateIdentifiers : resolve_private_identifier(n)

SpecPrivate == Init /\ [][NextPrivate]_vars

(***************************************************************************)
(* SpecResolve: dynamic re-resolution of locators through with-objects     *)
(* and poisoned scopes.                                                    *)
(***************************************************************************)
InitResolve ==
    /\ new(GlobalEnvironment(<<Some("1")>>))
    /\ global_object = GlobalObjectValue
    /\ in_flight = Idle
    /\ locator = global_locator("x")
    /\ calls = NoTally

CompileTimeLocators ==
    {global_locator(n) : n \in Names}
        \cup {declarative(n, i, 0) : n \in Names, i \in 0..2}

NextResolve ==
    \/ \E o \in {ObjX, ObjXUnscopable, ObjThrows} : push_object(o)
    \/ \E c \in {BlockScope, FunctionScopeY} : push_lexical(c)
    \/ push_function(FunctionScopeY, ThisLexical)
    \/ push_module(BlockScope)
    \/ pop
    \/ poison_until_last_function
    \/ \E L \in CompileTimeLocators : find_runtime_binding(L)
    \/ get_binding

SpecResolve == InitResolve /\ [][NextResolve]_vars

(***************************************************************************)
(* SpecSlots: scopes of at most MaxScopes environments whose slots are     *)
(* written and read through the locator under test.  A module environment  *)
(* is the outermost scope of its stack.                                    *)
(***************************************************************************)
InitSlots ==
    /\ new(GlobalEnvironment(<<None>>))
    /\ global_object = GlobalObjectValue
    /\ in_flight = Idle
    /\ locator = declarative("x", 0, 0)
    /\ calls = NoTally

NextSlots ==
    \/ Len(stack) < MaxScopes /\ push_object(ObjThrows)
    \/ Len(stack) < MaxScopes /\ push_lexical(BlockScope)
    \/ Len(stack) < MaxScopes /\ push_function(FunctionScopeY, ThisLexical)
    \/ stack = <<>> /\ push_module(BlockScope)
    \/ pop
    \/ \E i \in 0..MaxScopes, slot \in 0..1 : new_declarative("x", i, slot)
    \/ \E v \in Values :
           put_lexical_value(environment(locator), binding_index(locator), v)
    \/ \E v \in Values :
           put_value_if_uninitialized(environment(locator), binding_index(locator), v)
    \/ set_binding(locator, "1", FALSE)
    \/ get_binding
    \/ is_initialized_binding(locator)

SpecSlots == InitSlots /\ [][NextSlots]_vars

(***************************************************************************)
(* SpecSticky: every operation that reshapes the stack or goes through a   *)
(* locator, on scopes of at most MaxScopes environments.                   *)
(***************************************************************************)
SavedEnvironments ==
    {<<DeclarativeEnvironment("Lexical", BlockScope, FALSE, FALSE, NoSlots)>>,
     <<DeclarativeEnvironment("Function", FunctionScope, TRUE, FALSE, ThisLexical)>>,
     <<ObjectEnvironment(ObjX),
       DeclarativeEnvironment("Lexical", BlockScope, FALSE, TRUE, NoSlots)>>}

NextSticky ==
    \/ Len(stack) < MaxScopes /\ push_object(ObjX)
    \/ Len(stack) < MaxScopes /\ \E c \in {BlockScope, FunctionScope} : push_lexical(c)
    \/ Len(stack) < MaxScopes /\ push_function(FunctionScope, ThisLexical)
    \/ Len(stack) < MaxScopes /\ push_module(BlockScope)
    \/ pop
    \/ pop_to_global
    \/ \E n \in 0..MaxScopes : truncate(n)
    \/ \E other \in SavedEnvironments :
           Len(stack) + Len(other) <= MaxScopes /\ extend(other)
    \/ poison_until_last_function
    \/ find_runtime_binding(global_locator("x"))
    \/ get_binding
    \/ set_binding(locator, "1", FALSE)
    \/ delete_binding(locator)

SpecSticky == Init /\ [][NextSticky]_vars

(***************************************************************************)
(* SpecGlobal: construction over and replacement by candidate records of   *)
(* every kind, among the operations that remove environments.              *)
(***************************************************************************)
GlobalCandidates ==
    {GlobalEnvironment(<<None>>),
     GlobalEnvironment(<<Some("1")>>),
     DeclarativeEnvironment("Function", FunctionScope, FALSE, FALSE, ThisUninitialized),
     DeclarativeEnvironment("Lexical", BlockScope, FALSE, FALSE, NoSlots),
     DeclarativeEnvironment("Module", BlockScope, FALSE, FALSE, NoSlots)}

InitGlobal ==
    /\ \E g \in GlobalCandidates : new(g)
    /\ global_object = GlobalObjectValue
    /\ in_flight = Idle
    /\ locator = global_locator("x")
    /\ calls = NoTally

NextGlobal ==
    \/ Len(stack) < MaxScopes /\ push_object(ObjX)
    \/ Len(stack) < MaxScopes /\ push_lexical(BlockScope)
    \/ Len(stack) < MaxScopes /\ push_function(FunctionScope, ThisLexical)
    \/ Len(stack) < MaxScopes /\ push_module(BlockScope)
    \/ pop
    \/ pop_to_global
    \/ \E n \in 0..MaxScopes : truncate(n)
    \/ push_private(PrivateEnvironment(1, <<"#x">>))
    \/ pop_private
    \/ poison_until_last_function
    \/ \E g \in GlobalCandidates : replace_global(g)

SpecGlobal == InitGlobal /\ [][NextGlobal]_vars

(***************************************************************************)
(* SpecDelete: bindings written and deleted through locators that target   *)
(* the global object, the global record, declarative records and object    *)
(* environments.                                                           *)
(***************************************************************************)
NextDelete ==
    \/ Len(stack) < MaxScopes /\ push_object(ObjX)
    \/ Len(stack) < MaxScopes /\ push_lexical(BlockScope)
    \/ Len(stack) < MaxScopes /\ push_function(FunctionScopeY, ThisLexical)
    \/ Len(stack) < MaxScopes /\ push_module(BlockScope)
    \/ pop
    \/ \E i \in 0..MaxScopes, slot \in 0..1 : new_declarative("x", i, slot)
    \/ \E n \in Names : new_global(n)
    \/ set_binding(locator, "1", FALSE)
    \/ delete_binding(locator)
    \/ get_binding

SpecDelete == Init /\ [][NextDelete]_vars

(***************************************************************************)
(* SpecCurrent: the queries for the current declarative record and its     *)
(* compile-time environment, over stacks of every shape.                   *)
(***************************************************************************)
NextCurrent ==
    \/ push_object(ObjX)
    \/ \E c \in {BlockScope, FunctionScope} : push_lexical(c)
    \/ push_function(FunctionScope, ThisLexical)
    \/ push_module(BlockScope)
    \/ pop
    \/ query_current_declarative_ref
    \/ current_compile_environment

SpecCurrent == Init /\ [][NextCurrent]_vars

(***************************************************************************)
(* SpecThisObject: the object a with-scope resolution takes `this` from,   *)
(* over the stacks and locators of SpecResolve and stacks that extend      *)
(* has put saved environments back on.                                     *)
(***************************************************************************)
NextThisObject ==
    \/ \E o \in {ObjX, ObjXUnscopable, ObjThrows} : push_object(o)
    \/ \E c \in {BlockScope, FunctionScopeY} : push_lexical(c)
    \/ push_function(FunctionScopeY, ThisLexical)
    \/ push_module(BlockScope)
    \/ pop
    \/ \E other \in SavedEnvironments : extend(other)
    \/ poison_until_last_function
    \/ \E L \in CompileTimeLocators : this_from_object_environment_binding(L)

SpecThisObject == InitResolve /\ [][NextThisObject]_vars

(***************************************************************************)
(* SpecReentry: find_runtime_binding run one iteration at a time, with     *)
(* user code pushing and popping scopes while an object environment is     *)
(* being read.  The caller reshapes the stack only between calls.          *)
(***************************************************************************)
NextReentry ==
    \/ in_flight.at # "loop" /\ (\E o \in {ObjX, ObjThrows} : push_object(o))
    \/ in_flight.at # "loop" /\ push_lexical(BlockScope)
    \/ in_flight.at # "loop" /\ pop
    \/ \E L \in CompileTimeLocators : find_runtime_binding_enter(L)
    \/ find_runtime_binding_iterate
    \/ find_runtime_binding_resume

SpecReentry == InitResolve /\ [][NextReentry]_vars

(***************************************************************************)
(* SpecSnapshot: the stack taken off with pop_to_global and put back with  *)
(* extend, as done around generators, beside a private stack.              *)
(***************************************************************************)
NextSnapshot ==
    \/ Len(stack) < MaxScopes /\ (\E o \in {ObjX, ObjThrows} : push_object(o))
    \/ Len(stack) < MaxScopes /\ push_lexical(BlockScope)
    \/ Len(stack) < MaxScopes /\ push_function(FunctionScope, ThisLexical)
    \/ pop
    \/ poison_until_last_function
    \/ \E env \in PrivateEnvironments : push_private(env)
    \/ pop_private
    \/ pop_to_global
    \/ last.op = "pop_to_global" /\ extend(last.envs)

SpecSnapshot == Init /\ [][NextSnapshot]_vars

(***************************************************************************)
(* SpecInherit: scopes pushed over poisoned and unpoisoned records, and    *)
(* records that were off the stack while the stack was poisoned put back   *)
(* with extend.                                                            *)
(***************************************************************************)
NextInherit ==
    \/ push_object(ObjX)
    \/ \E c \in {BlockScope, FunctionScope} : push_lexical(c)
    \/ push_function(FunctionScope, ThisLexical)
    \/ pop
    \/ poison_until_last_function
    \/ \E other \in SavedEnvironments : extend(other)

SpecInherit == Init /\ [][NextInherit]_vars

(***************************************************************************)
(* SpecNames: the descriptions of the private stack listed.  A private     *)
(* environment holds a Vec of descriptions, which may hold one twice.      *)
(***************************************************************************)
NamedEnvironments ==
    PrivateEnvironments \cup {PrivateEnvironment(5, <<"#y", "#z", "#y">>)}

NextNames ==
    \/ \E env \in NamedEnvironments : push_private(env)
    \/ pop_private
    \/ private_name_descriptions

SpecNames == Init /\ [][NextNames]_vars

(***************************************************************************)
(* C1.  While only push_object, push_lexical, push_function, push_module   *)
(* and pop (on a non-empty stack) have reshaped a fresh stack, len()       *)
(* equals the number of push_* calls minus the number of pop calls;        *)
(* push_private and pop_private leave len() as it was; and right after     *)
(* pop_to_global len() is 0.                                               *)
(***************************************************************************)
C1_LenCountsPushesMinusPops ==
    /\ calls.tracked => len = calls.push - calls.pop
    /\ last.op \in {"push_private", "pop_private"} => len = last.len
    /\ last.op = "pop_to_global" => len = 0

C1_Witness ==
    /\ calls.tracked
    /\ calls.push = 3
    /\ calls.pop = 1
    /\ len = 2
    /\ last.op = "pop_private"

(***************************************************************************)
(* C2 as stated.  The locator made by declarative(name, env_idx, slot)     *)
(* has environment() = Stack(env_idx) and binding_index() = slot, and the  *)
(* one made by global(name) has is_global() and environment() =            *)
(* GlobalObject.                                                           *)
(***************************************************************************)
C2_DeclarativeIsStackOfItsIndex ==
    /\ last.op = "declarative" =>
           /\ environment(locator) = Stack(last.environment_index)
           /\ binding_index(locator) = last.binding_index
    /\ last.op = "global" =>
           /\ is_global(locator)
           /\ environment(locator) = GlobalObject

(***************************************************************************)
(* C2 amended.  declarative(name, env_idx, slot) counts the global         *)
(* declarative record as environment index 0: environment() is             *)
(* GlobalDeclarative when env_idx = 0 and Stack(env_idx - 1) when          *)
(* env_idx >= 1; name() = name and binding_index() = slot; global(name)    *)
(* has is_global() and environment() = GlobalObject.                       *)
(***************************************************************************)
C2_DeclarativeCountsGlobalAsZero ==
    /\ last.op = "declarative" =>
           /\ environment(locator) =
                  IF last.environment_index = 0 THEN GlobalDeclarative
                  ELSE Stack(last.environment_index - 1)
           /\ ~is_global(locator)
           /\ locator.name = last.name
           /\ binding_index(locator) = last.binding_index
    /\ last.op = "global" =>
           /\ is_global(locator)
           /\ locator.name = last.name
           /\ environment(locator) = GlobalObject

C2_Witness ==
    /\ last.op = "declarative"
    /\ last.environment_index = 2
    /\ last.binding_index = 1
    /\ environment(locator) = Stack(1)

(***************************************************************************)
(* Vocabulary of the claims about find_runtime_binding, stated on the      *)
(* stack the call saw.  Indices are source indices.                        *)
(***************************************************************************)
TakesFastPath(s, g) ==
    IF s = <<>> THEN ~g.with /\ ~g.poisoned
    ELSE /\ s[Len(s)].tag = "Declarative"
         /\ ~s[Len(s)].with
         /\ ~s[Len(s)].poisoned

ScanFloor(L) == IF environment(L).tag = "Stack" THEN environment(L).index ELSE 0

HoldsName(e, n) ==
    /\ e.tag = "Object"
    /\ ~e.object.throws
    /\ e.object.properties[n] # None

Hidden(e, n) == e.object.unscopables # None /\ e.object.unscopables[1][n]

ResolvesName(e, n) ==
    /\ e.tag = "Declarative"
    /\ e.poisoned
    /\ e.compile_env.function
    /\ e.compile_env.bindings[n] # None

PassedOver(e, n) ==
    IF e.tag = "Object"
    THEN ~e.object.throws /\ (HoldsName(e, n) => Hidden(e, n))
    ELSE ~ResolvesName(e, n) /\ (e.poisoned \/ e.with)

Met(s, i, n) == \A j \in (i + 1)..(Len(s) - 1) : PassedOver(s[j + 1], n)

RanToEnd(s, L) == \A i \in ScanFloor(L)..(Len(s) - 1) : PassedOver(s[i + 1], L.name)

(***************************************************************************)
(* C3.  On the slow path of find_runtime_binding the scan runs from the    *)
(* top of the stack down to the locator's own index (0 for a global        *)
(* locator).  The first object environment it meets that has the           *)
(* locator's name and whose @@unscopables does not hide it becomes the     *)
(* locator's environment, Stack(its index), and get_binding then returns   *)
(* that object's property value; an object environment whose               *)
(* @@unscopables hides the name is skipped; and when nothing in the scan   *)
(* matches, the locator is left as it was.                                 *)
(***************************************************************************)
C3_WithObjectShadowsUnlessUnscopable ==
    (last.op = "find_runtime_binding" /\ ~TakesFastPath(stack, global)) =>
        LET L == last.locator
            n == L.name
        IN  /\ \A i \in ScanFloor(L)..(Len(stack) - 1) :
                   (/\ Met(stack, i, n)
                    /\ HoldsName(stack[i + 1], n)
                    /\ ~Hidden(stack[i + 1], n)) =>
                        /\ last.result = "Ok"
                        /\ environment(locator) = Stack(i)
                        /\ locator.name = n
                        /\ binding_index(locator) = binding_index(L)
                        /\ get_binding_of(stack, global, locator)
                               = Ok(Some(stack[i + 1].object.properties[n][1]))
            /\ (/\ RanToEnd(stack, L)
                /\ ~(/\ environment(L).tag # "Stack"
                     /\ global.poisoned
                     /\ global.compile_env.bindings[n] # None)) =>
                   /\ last.result = "Ok"
                   /\ locator = L

C3_Witness ==
    /\ last.op = "get_binding"
    /\ Len(stack) = 3
    /\ stack[1] = ObjectEnvironment(ObjX)
    /\ stack[2] = ObjectEnvironment(ObjXUnscopable)
    /\ stack[3].tag = "Declarative"
    /\ stack[3].with
    /\ environment(locator) = Stack(0)
    /\ locator.name = "x"
    /\ last.result = Ok(Some("42"))

C5_FastPathIsNoOp ==
    [][(last'.op = "find_runtime_binding" /\ TakesFastPath(stack, global)) =>
           /\ last'.result = "Ok"
           /\ last'.visited = {}
           /\ locator' = last'.locator
           /\ stack' = stack
           /\ global' = global
           /\ private_stack' = private_stack]_vars

C5_Witness ==
    /\ last.op = "find_runtime_binding"
    /\ TakesFastPath(stack, global)
    /\ Len(stack) = 2
    /\ stack[1] = ObjectEnvironment(ObjX)
    /\ last.locator = declarative("x", 0, 0)
    /\ locator = last.locator

(***************************************************************************)
(* Vocabulary of the claims about the flags of the records on the stack.   *)
(* Positions are 1-based positions of the sequence.                        *)
(***************************************************************************)
Declaratives(s) == {k \in 1..Len(s) : s[k].tag = "Declarative"}

Highest(S) == CHOOSE k \in S : \A j \in S : j <= k

EnclosingDeclarative(s, g) ==
    IF Declaratives(s) = {} THEN g ELSE s[Highest(Declaratives(s))]

PoisonedDownTo(s, g, t, h, floor) ==
    /\ Len(t) = Len(s)
    /\ \A k \in 1..Len(s) :
           t[k] = IF k >= floor /\ s[k].tag = "Declarative"
                  THEN [s[k] EXCEPT !.poisoned = TRUE]
                  ELSE s[k]
    /\ h = IF floor = 0 THEN [g EXCEPT !.poisoned = TRUE] ELSE g

(***************************************************************************)
(* C6 as stated.  After poison_until_last_function every declarative       *)
(* record from the top of the stack down to and including the nearest      *)
(* record of Function kind is poisoned (every declarative record and the   *)
(* global when the stack holds no Function record), and every record       *)
(* below it, the global included, is as it was.                            *)
(***************************************************************************)
C6_PoisonsDownToNearestFunctionKind ==
    [][last'.op = "poison_until_last_function" =>
           LET functions == {k \in Declaratives(stack) : stack[k].kind = "Function"}
               floor == IF functions = {} THEN 0 ELSE Highest(functions)
           IN  PoisonedDownTo(stack, global, stack', global', floor)]_vars

(***************************************************************************)
(* C6 amended.  After poison_until_last_function every declarative record  *)
(* from the top of the stack down to and including the nearest record      *)
(* whose compile-time environment is a function scope                      *)
(* (compile_env().is_function()) is poisoned (every declarative record     *)
(* and the global when the stack holds no such record), and every record   *)
(* below it, the global included, is as it was.                            *)
(***************************************************************************)
C6_PoisonsDownToNearestFunctionScope ==
    [][last'.op = "poison_until_last_function" =>
           LET scopes == {k \in Declaratives(stack) : stack[k].compile_env.function}
               floor == IF scopes = {} THEN 0 ELSE Highest(scopes)
           IN  PoisonedDownTo(stack, global, stack', global', floor)]_vars

C6_Witness ==
    /\ last.op = "poison_until_last_function"
    /\ Len(stack) = 3
    /\ stack[1].tag = "Declarative"
    /\ ~stack[1].poisoned
    /\ stack[2].tag = "Declarative"
    /\ stack[2].kind = "Function"
    /\ stack[2].poisoned
    /\ stack[3].tag = "Declarative"
    /\ stack[3].compile_env = BlockScope
    /\ stack[3].poisoned
    /\ ~global.poisoned

(***************************************************************************)
(* C7.  The record push_lexical or push_function creates has with() true   *)
(* when the top of the stack at the push is an object environment;         *)
(* otherwise its with() is that of the nearest enclosing declarative       *)
(* record on the stack, the global's when the stack holds none.            *)
(***************************************************************************)
C7_WithSetUnderObjectElseInherited ==
    last.op \in {"push_lexical", "push_function"} =>
        LET before == SubSeq(stack, 1, Len(stack) - 1)
            created == stack[Len(stack)]
        IN  /\ created.tag = "Declarative"
            /\ created.kind = IF last.op = "push_lexical" THEN "Lexical" ELSE "Function"
            /\ created.with =
                   IF before # <<>> /\ before[Len(before)].tag = "Object" THEN TRUE
                   ELSE EnclosingDeclarative(before, global).with

C7_Witness ==
    /\ last.op = "push_lexical"
    /\ Len(stack) = 3
    /\ stack[1].tag = "Object"
    /\ stack[2].tag = "Declarative"
    /\ stack[2].kind = "Function"
    /\ stack[3].with

(***************************************************************************)
(* Vocabulary of the claims about `this`: the records that provide a this  *)
(* binding are the Global and Module records and the Function records      *)
(* whose this status is not Lexical.                                       *)
(***************************************************************************)
ProvidesThis(e) ==
    /\ e.tag = "Declarative"
    /\ \/ e.kind \in {"Global", "Module"}
       \/ e.kind = "Function" /\ e.slots.status # "Lexical"

ThisProviders(s) == {k \in 1..Len(s) : ProvidesThis(s[k])}

(***************************************************************************)
(* C8.  get_this_environment() returns the innermost declarative record    *)
(* on the stack that has a this binding, skipping object environments,     *)
(* Lexical records and Function records whose this status is Lexical, and  *)
(* the global record when no record on the stack has one.                  *)
(***************************************************************************)
C8_ThisEnvironmentIsInnermostProvider ==
    last.op = "get_this_environment" =>
        IF ThisProviders(stack) = {}
        THEN /\ last.index = -1
             /\ last.kind = [kind |-> "Global", slots |-> global.slots]
        ELSE LET k == Highest(ThisProviders(stack))
             IN  /\ last.index = k - 1
                 /\ last.kind = [kind |-> stack[k].kind, slots |-> stack[k].slots]

C8_Witness ==
    /\ last.op = "get_this_environment"
    /\ Len(stack) = 3
    /\ ProvidesThis(stack[1])
    /\ stack[2].tag = "Declarative"
    /\ stack[2].kind = "Function"
    /\ stack[2].slots.status # "Lexical"
    /\ stack[3].tag = "Declarative"
    /\ stack[3].kind = "Function"
    /\ stack[3].slots.status = "Lexical"
    /\ last.index = 1

(***************************************************************************)
(* C9.  get_this_binding() is decided by the innermost record that has a   *)
(* this binding: when that record is a Function record whose this is       *)
(* Uninitialized the call fails with a ReferenceError, whatever scopes     *)
(* without a this lie above it, and once its this is initialized the call  *)
(* returns Ok(Some(value)) with the value it was initialized to.           *)
(***************************************************************************)
C9_ThisBindingOfInnermostProvider ==
    (last.op = "get_this_binding" /\ ThisProviders(stack) # {}) =>
        LET provider == stack[Highest(ThisProviders(stack))]
        IN  /\ (provider.kind = "Function" /\ provider.slots.status = "Uninitialized")
                   => last.result = Err("ReferenceError")
            /\ (provider.kind = "Function" /\ provider.slots.status = "Initialized")
                   => last.result = Ok(Some(provider.slots.value))

C9_Witness ==
    /\ last.op = "get_this_binding"
    /\ Len(stack) = 3
    /\ stack[1].tag = "Declarative"
    /\ stack[1].kind = "Function"
    /\ stack[1].slots = ThisInitialized("thisB")
    /\ stack[2].tag = "Declarative"
    /\ stack[2].kind = "Function"
    /\ stack[2].slots.status = "Lexical"
    /\ stack[3].tag = "Object"
    /\ last.result = Ok(Some("thisB"))

(***************************************************************************)
(* C10.  resolve_private_identifier(n) returns Some exactly when some      *)
(* environment on the private stack lists n among its descriptions, and    *)
(* the PrivateName it returns carries n and the id of the innermost such   *)
(* environment (so after pop_private the next enclosing one answers).      *)
(***************************************************************************)
C10_ResolvesToInnermostPrivateEnvironment ==
    last.op = "resolve_private_identifier" =>
        LET n == last.identifier
            holders == {k \in 1..Len(private_stack) :
                           \E d \in 1..Len(private_stack[k].descriptions) :
                               private_stack[k].descriptions[d] = n}
        IN  /\ last.result # None <=> holders # {}
            /\ holders # {} =>
                   last.result =
                       Some([description |-> n,
                             id |-> private_stack[Highest(holders)].id])

C10_Witness ==
    /\ last.op = "resolve_private_identifier"
    /\ last.identifier = "#x"
    /\ private_stack = <<PrivateEnvironment(1, <<"#x">>),
                         PrivateEnvironment(2, <<"#x", "#y">>),
                         PrivateEnvironment(3, <<"#y">>)>>
    /\ last.result = Some(PrivateName("#x", 2))

(***************************************************************************)
(* Vocabulary of the claims about slots.  A target is a                    *)
(* BindingLocatorEnvironment; slots are source slot indices.               *)
(***************************************************************************)
IsDeclarativeTarget(s, target) ==
    \/ target.tag = "GlobalDeclarative"
    \/ /\ target.tag = "Stack"
       /\ target.index < Len(s)
       /\ s[target.index + 1].tag = "Declarative"

SlotsOf(s, g, target) ==
    IF target.tag = "Stack" THEN s[target.index + 1].bindings ELSE g.bindings

WritesSlot(call) ==
    call.op \in {"put_lexical_value", "put_value_if_uninitialized", "set_binding"}

WrittenTarget(call) ==
    IF call.op = "set_binding" THEN environment(call.locator) ELSE call.environment

WrittenSlot(call) ==
    IF call.op = "set_binding" THEN binding_index(call.locator) ELSE call.binding_index

(***************************************************************************)
(* C11.  For a locator L that targets the global declarative record or a   *)
(* declarative record at an in-range stack index, a completed              *)
(* put_lexical_value(L.environment(), L.binding_index(), v) followed by    *)
(* get_binding(L) yields Ok(Some(v)), whatever the slot held before.       *)
(***************************************************************************)
C11_PutThenGetYieldsValue ==
    [][(/\ last.op = "put_lexical_value"
        /\ last.outcome = "ok"
        /\ last'.op = "get_binding"
        /\ last.environment = environment(last'.locator)
        /\ last.binding_index = binding_index(last'.locator)
        /\ IsDeclarativeTarget(stack, environment(last'.locator)))
           => last'.result = Ok(Some(last.value))]_vars

C11_Witness ==
    /\ last.op = "get_binding"
    /\ Len(stack) = 2
    /\ stack[1].tag = "Object"
    /\ stack[2].tag = "Declarative"
    /\ environment(locator) = Stack(1)
    /\ binding_index(locator) = 1
    /\ stack[2].bindings = <<Some("1"), Some("2")>>
    /\ last.result = Ok(Some("2"))

(***************************************************************************)
(* C12.  put_value_if_uninitialized writes a slot only while it is         *)
(* uninitialized: on an uninitialized slot the call stores its value and   *)
(* touches no other slot, on an initialized slot it changes nothing, and   *)
(* a second call on the same slot right after a first leaves the slot as   *)
(* the first left it (holding v1 when it started uninitialized).           *)
(***************************************************************************)
C12_WritesOnlyWhileUninitialized ==
    [][(last'.op = "put_value_if_uninitialized" /\ last'.outcome = "ok") =>
           LET target == last'.environment
               j == last'.binding_index + 1
               before == SlotsOf(stack, global, target)
               after == SlotsOf(stack', global', target)
           IN  /\ before[j] # None => (stack' = stack /\ global' = global)
               /\ before[j] = None =>
                      /\ after = [before EXCEPT ![j] = Some(last'.value)]
                      /\ target.tag = "Stack" =>
                             /\ global' = global
                             /\ stack' = [stack EXCEPT ![target.index + 1].bindings = after]
                      /\ target.tag # "Stack" => stack' = stack
               /\ (/\ last.op = "put_value_if_uninitialized"
                   /\ last.outcome = "ok"
                   /\ last.environment = target
                   /\ last.binding_index = last'.binding_index) =>
                      /\ after[j] = before[j]
                      /\ before[j] # None]_vars

C12_Witness ==
    /\ last.op = "put_value_if_uninitialized"
    /\ last.outcome = "ok"
    /\ last.value = "2"
    /\ last.environment = Stack(0)
    /\ last.binding_index = 1
    /\ Len(stack) >= 1
    /\ stack[1].tag = "Declarative"
    /\ stack[1].bindings = <<None, Some("1")>>

(***************************************************************************)
(* C13.  Every slot of the record push_lexical, push_function or           *)
(* push_module creates is uninitialized: get_binding through a locator     *)
(* for it returns Ok(None) and is_initialized_binding returns false.  A    *)
(* slot of a record on the stack becomes initialized only by a             *)
(* put_lexical_value, put_value_if_uninitialized or set_binding aimed at   *)
(* that record and that slot, so writing one slot never initializes        *)
(* another; and while a slot is uninitialized get_binding returns          *)
(* Ok(None) and is_initialized_binding false for it.                       *)
(***************************************************************************)
C13_SlotsStartAndStayUninitializedUntilWritten ==
    [][/\ last'.op \in {"push_lexical", "push_function", "push_module"} =>
              LET created == stack'[Len(stack')]
              IN  /\ Len(stack') = Len(stack) + 1
                  /\ Len(created.bindings) = created.compile_env.num_bindings
                  /\ \A j \in 1..Len(created.bindings) :
                         LET L == declarative("x", Len(stack'), j - 1)
                         IN  /\ created.bindings[j] = None
                             /\ get_binding_of(stack', global', L) = Ok(None)
                             /\ is_initialized_binding_of(stack', global', L) = Ok(FALSE)
       /\ \A k \in 1..Len(stack) :
              (k <= Len(stack') /\ stack[k].tag = "Declarative") =>
                  /\ stack'[k].tag = "Declarative"
                  /\ \A j \in 1..Len(stack[k].bindings) :
                         (stack[k].bindings[j] = None /\ stack'[k].bindings[j] # None) =>
                             /\ WritesSlot(last')
                             /\ WrittenTarget(last') = Stack(k - 1)
                             /\ WrittenSlot(last') = j - 1
       /\ (/\ last'.op \in {"get_binding", "is_initialized_binding"}
           /\ environment(last'.locator).tag = "Stack"
           /\ IsDeclarativeTarget(stack, environment(last'.locator))
           /\ has_slot(stack[environment(last'.locator).index + 1],
                       binding_index(last'.locator))) =>
              LET held == stack[environment(last'.locator).index + 1]
                              .bindings[binding_index(last'.locator) + 1]
              IN  held = None =>
                      last'.result = IF last'.op = "get_binding" THEN Ok(None)
                                     ELSE Ok(FALSE)]_vars

C13_Witness ==
    /\ last.op = "is_initialized_binding"
    /\ last.result = Ok(FALSE)
    /\ environment(locator) = Stack(1)
    /\ binding_index(locator) = 1
    /\ Len(stack) = 2
    /\ stack[1].tag = "Declarative"
    /\ stack[1].kind = "Module"
    /\ stack[1].bindings = <<Some("1")>>
    /\ stack[2].tag = "Declarative"
    /\ stack[2].kind = "Function"
    /\ stack[2].bindings = <<Some("2"), None>>

(***************************************************************************)
(* C14.  No operation resets a flag: in every step, a declarative record   *)
(* that stays on the stack keeps poisoned() true once it is true and       *)
(* with() true once it is true, and so does the global record.             *)
(***************************************************************************)
C14_FlagsNeverReset ==
    [][/\ \A k \in 1..Len(stack) :
              (k <= Len(stack') /\ stack[k].tag = "Declarative") =>
                  /\ stack'[k].tag = "Declarative"
                  /\ stack[k].poisoned => stack'[k].poisoned
                  /\ stack[k].with => stack'[k].with
       /\ global.poisoned => global'.poisoned
       /\ global.with => global'.with]_vars

C14_Witness ==
    /\ last.op = "delete_binding"
    /\ Len(stack) = 2
    /\ stack[1].tag = "Object"
    /\ stack[2].tag = "Declarative"
    /\ stack[2].with
    /\ stack[2].poisoned
    /\ stack[2].bindings = <<Some("1")>>
    /\ global.poisoned

(***************************************************************************)
(* C15.  The global record is always present and of kind Global: a stack   *)
(* is constructed only over a Global record; replace_global panics on a    *)
(* record of any other kind and replaces nothing, and with a Global record *)
(* it installs that record and leaves the stack and the private stack as   *)
(* they were; and pop, pop_to_global and truncate leave the global record  *)
(* alone, as it is held outside the stack.                                 *)
(***************************************************************************)
C15_GlobalIsAlwaysOfKindGlobal ==
    /\ [](global.tag = "Declarative" /\ global.kind = "Global")
    /\ [][/\ last'.op = "replace_global" =>
                 /\ stack' = stack
                 /\ private_stack' = private_stack
                 /\ last'.outcome = "panic" <=> last'.global.kind # "Global"
                 /\ last'.outcome = "panic" => global' = global
                 /\ last'.outcome = "replaced" => global' = last'.global
          /\ last'.op \in {"pop", "pop_to_global", "truncate"} => global' = global]_vars

C15_Witness ==
    /\ last.op = "replace_global"
    /\ last.outcome = "replaced"
    /\ global = GlobalEnvironment(<<Some("1")>>)
    /\ Len(stack) = 2
    /\ stack[1].tag = "Declarative"
    /\ stack[1].poisoned
    /\ private_stack # <<>>

(***************************************************************************)
(* C16.  delete_binding through a locator that targets the global          *)
(* declarative record or a declarative record on the stack returns         *)
(* Ok(false), calls no object and changes nothing; no delete_binding       *)
(* changes a slot of any declarative record; and the call delegates to an  *)
(* object's [[Delete]] exactly when the locator targets the global object  *)
(* or an object environment on the stack, and then to that object.         *)
(***************************************************************************)
C16_DeclarativeBindingsAreNotDeletable ==
    [][last'.op = "delete_binding" =>
           LET L == last'.locator
               target == environment(L)
               on_object == \/ target.tag = "GlobalObject"
                            \/ /\ target.tag = "Stack"
                               /\ target.index < Len(stack)
                               /\ stack[target.index + 1].tag = "Object"
           IN  /\ IsDeclarativeTarget(stack, target) =>
                      /\ last'.result = Ok(FALSE)
                      /\ stack' = stack
                      /\ global_object' = global_object
               /\ global' = global
               /\ Len(stack') = Len(stack)
               /\ \A k \in 1..Len(stack) :
                      stack[k].tag = "Declarative" => stack'[k] = stack[k]
               /\ last'.deleted # None <=> on_object
               /\ on_object => last'.deleted = Some(target)]_vars

C16_Witness ==
    /\ last.op = "delete_binding"
    /\ last.result = Ok(FALSE)
    /\ last.locator = declarative("x", 2, 1)
    /\ Len(stack) = 2
    /\ stack[1].tag = "Object"
    /\ stack[1].object.properties["x"] = None
    /\ stack[2].tag = "Declarative"
    /\ stack[2].bindings = <<None, Some("1")>>
    /\ global.bindings = <<Some("1")>>

(***************************************************************************)
(* C17 as stated.  current_declarative_ref() returns the nearest           *)
(* declarative record at or below the top of the stack, skipping the       *)
(* object environments above it, and the global record when the stack      *)
(* holds none; current_compile_environment() returns that record's         *)
(* compile_env.                                                            *)
(***************************************************************************)
C17_CurrentSkipsObjectEnvironments ==
    /\ last.op = "current_declarative_ref" =>
           last.result = Some(EnclosingDeclarative(stack, global))
    /\ last.op = "current_compile_environment" =>
           last.result = EnclosingDeclarative(stack, global).compile_env

(***************************************************************************)
(* C17 amended.  current_declarative_ref() returns the top of the stack    *)
(* when that is a declarative record, the global record when the stack is  *)
(* empty, and None when the top of the stack is an object environment;     *)
(* current_compile_environment() returns the compile_env of the nearest    *)
(* declarative record at or below the top, skipping object environments,   *)
(* and the global record's when the stack holds no declarative record.     *)
(***************************************************************************)
C17_CurrentIsTopUnlessObject ==
    /\ last.op = "current_declarative_ref" =>
           last.result = IF stack = <<>> THEN Some(global)
                         ELSE IF stack[Len(stack)].tag = "Declarative"
                              THEN Some(stack[Len(stack)])
                         ELSE None
    /\ last.op = "current_compile_environment" =>
           last.result = EnclosingDeclarative(stack, global).compile_env

C17_Witness ==
    /\ last.op = "current_declarative_ref"
    /\ Len(stack) = 3
    /\ stack[1].tag = "Declarative"
    /\ stack[2].tag = "Declarative"
    /\ stack[2].compile_env = FunctionScope
    /\ stack[3].tag = "Object"
    /\ last.result = None

(***************************************************************************)
(* C18.  When the stack is empty, or holds no record that has a this       *)
(* binding (only object environments, Lexical records and Function         *)
(* records whose this is Lexical), get_this_binding() returns Ok(None)     *)
(* and not the this value of the global record.                            *)
(***************************************************************************)
C18_NoThisAtGlobal ==
    (last.op = "get_this_binding" /\ ThisProviders(stack) = {}) =>
        /\ last.result = Ok(None)
        /\ last.result # decl_get_this_binding(global)

C18_Witness ==
    /\ last.op = "get_this_binding"
    /\ Len(stack) = 3
    /\ stack[1].tag = "Declarative"
    /\ stack[1].kind = "Function"
    /\ stack[1].slots.status = "Lexical"
    /\ stack[2].tag = "Object"
    /\ stack[3].tag = "Declarative"
    /\ stack[3].kind = "Lexical"
    /\ last.result = Ok(None)

(***************************************************************************)
(* C19 as stated.  After any sequence of push_object, push_lexical,        *)
(* push_function, push_module and pop, a record created by push_lexical    *)
(* or push_function has with() true if and only if some object             *)
(* environment lies below it on the stack.                                 *)
(***************************************************************************)
C19_WithIffObjectBelow ==
    \A k \in 1..Len(stack) :
        (stack[k].tag = "Declarative" /\ stack[k].kind \in {"Lexical", "Function"}) =>
            (stack[k].with <=> \E j \in 1..(k - 1) : stack[j].tag = "Object")

(***************************************************************************)
(* C19 amended.  After any sequence of push_object, push_lexical,          *)
(* push_function, push_module and pop, a record created by push_lexical    *)
(* or push_function has with() true if and only if some object             *)
(* environment lies below it with no Module record between the two: a      *)
(* Module record starts with with() false and hides the object             *)
(* environments below it from the records pushed above it.                 *)
(***************************************************************************)
C19_WithIffObjectBelowAboveModule ==
    \A k \in 1..Len(stack) :
        (stack[k].tag = "Declarative" /\ stack[k].kind \in {"Lexical", "Function"}) =>
            (stack[k].with <=>
                \E j \in 1..(k - 1) :
                    /\ stack[j].tag = "Object"
                    /\ \A i \in (j + 1)..(k - 1) :
                           ~(stack[i].tag = "Declarative" /\ stack[i].kind = "Module"))

C19_Witness ==
    /\ last.op = "push_lexical"
    /\ Len(stack) = 3
    /\ stack[1].tag = "Object"
    /\ stack[2].tag = "Declarative"
    /\ stack[2].kind = "Module"
    /\ stack[3].tag = "Declarative"
    /\ stack[3].kind = "Lexical"
    /\ ~stack[3].with

(***************************************************************************)
(* Vocabulary of the claims about this_from_object_environment_binding:    *)
(* find_runtime_binding stops at an object environment when it returns Ok  *)
(* with the locator set to the index of an object it called into.          *)
(***************************************************************************)
StopsAtObject(found) ==
    /\ found.result.tag = "Ok"
    /\ ~found.ended
    /\ environment(found.locator).tag = "Stack"
    /\ environment(found.locator).index \in found.visited

ParallelsFind(call, found, s) ==
    /\ (call.result.tag = "Ok" /\ call.result.value # None) <=> StopsAtObject(found)
    /\ StopsAtObject(found) =>
           /\ call.index = environment(found.locator).index
           /\ call.result = Ok(Some(s[call.index + 1].object))
    /\ (found.result.tag = "Ok" /\ ~StopsAtObject(found)) => call.result = Ok(None)

(***************************************************************************)
(* C20 as stated.  For every stack and locator,                            *)
(* this_from_object_environment_binding returns Ok(Some(o)) exactly when   *)
(* find_runtime_binding on the same stack and locator rewrites the         *)
(* locator to Stack(i) with stack[i] the object environment o, and         *)
(* Ok(None) whenever find_runtime_binding returns leaving the locator      *)
(* as it was or resolving it to a declarative location.                    *)
(***************************************************************************)
C20_ThisObjectParallelsFind ==
    last.op = "this_from_object_environment_binding" =>
        ParallelsFind(last, find_runtime_binding_of(stack, global, last.locator), stack)

(***************************************************************************)
(* C20 amended.  this_from_object_environment_binding returns Ok(None) at  *)
(* once when the top of the stack (the global record when the stack is     *)
(* empty) is a declarative record whose with() is false, poisoned or not;  *)
(* in every other state it agrees with find_runtime_binding as stated,     *)
(* and fails when find_runtime_binding fails.                              *)
(***************************************************************************)
C20_ThisObjectParallelsFindUnderWith ==
    last.op = "this_from_object_environment_binding" =>
        LET found == find_runtime_binding_of(stack, global, last.locator)
            top == current_declarative_ref(stack, global)
        IN  IF top # None /\ ~top[1].with
            THEN last.result = Ok(None)
            ELSE /\ ParallelsFind(last, found, stack)
                 /\ last.result.tag = "Err" <=> found.result.tag = "Err"

C20_Witness ==
    /\ last.op = "this_from_object_environment_binding"
    /\ last.locator = global_locator("x")
    /\ Len(stack) = 3
    /\ stack[1] = ObjectEnvironment(ObjX)
    /\ stack[2] = ObjectEnvironment(ObjXUnscopable)
    /\ stack[3].tag = "Declarative"
    /\ stack[3].with
    /\ stack[3].poisoned
    /\ last.result = Ok(Some(ObjX))
    /\ last.index = 0


(***************************************************************************)
(* Vocabulary of C21.  The locator's target scope is the global record for *)
(* a global locator and the environment at min_index otherwise; the        *)
(* indices still to visit are those below the one last visited.            *)
(***************************************************************************)
TargetOnStack(s, position) == position.global \/ position.min_index < Len(s)

Remaining(position) ==
    IF position.at = "loop" THEN position.next ELSE position.index

RemainingOnStack(s, position) == Remaining(position) <= Len(s)

CompletesWithOkOrErr(s, position, call) ==
    position.at = "idle" => call.result \in {"Ok", "Err"}

(***************************************************************************)
(* C21 as stated.  When user code re-entered during find_runtime_binding   *)
(* has pushed and popped scopes and the locator's target scope is still on *)
(* the stack when control returns, every later iteration addresses an      *)
(* index in range and the call completes with Ok or the user code's error, *)
(* never with a panic of environment_expect.                               *)
(***************************************************************************)
C21_ScanInRangeWhileTargetOnStack ==
    [][(in_flight.at # "idle" /\ TargetOnStack(stack, in_flight))
          => CompletesWithOkOrErr(stack', in_flight', last')]_vars

(***************************************************************************)
(* C21, amended.  When user code re-entered during find_runtime_binding    *)
(* has pushed and popped scopes and, when control returns, the stack is    *)
(* still at least as long as the index of the object environment that was  *)
(* being read (every index the scan has yet to visit is on the stack),     *)
(* every later iteration addresses an index in range and the call          *)
(* completes with Ok or the user code's error; and when the next index to  *)
(* visit is no longer on the stack, the call panics in environment_expect, *)
(* whether or not the locator's target scope is still there.               *)
(***************************************************************************)
C21_ScanInRangeWhileRemainingOnStack ==
    [][/\ (in_flight.at # "idle" /\ RemainingOnStack(stack, in_flight))
            => CompletesWithOkOrErr(stack', in_flight', last')
       /\ (/\ in_flight.at = "loop"
           /\ in_flight.next > in_flight.min_index
           /\ ~RemainingOnStack(stack, in_flight))
            => (in_flight' = Idle /\ last'.result = "Panic")]_vars

\* A call that went on below the object it read after user code had left
\* the stack with another length, and returned Ok.
C21_Witness ==
    /\ in_flight = Idle
    /\ last.op = "find_runtime_binding"
    /\ last.result = "Ok"
    /\ last.index + 1 < last.max_index
    /\ Len(stack) # last.max_index
    /\ Len(stack) > last.index


(***************************************************************************)
(* C22.  pop_to_global returns exactly the environments that were on the   *)
(* stack, bottom first, empties the stack and leaves the private stack and *)
(* the global record as they were; extend with the returned vector on the  *)
(* emptied stack puts back the same sequence of the same records.          *)
(***************************************************************************)
C22_PopToGlobalThenExtendRestores ==
    [][/\ last'.op = "pop_to_global"
            => /\ last'.envs = stack
               /\ stack' = <<>>
               /\ private_stack' = private_stack
               /\ global' = global
       /\ (last.op = "pop_to_global" /\ last'.op = "extend"
                /\ last'.other = last.envs)
            => /\ stack' = last.envs
               /\ private_stack' = private_stack
               /\ global' = global]_vars

\* A stack of an object and a poisoned record put back beside a private
\* stack that was left alone.
C22_Witness ==
    /\ last.op = "extend"
    /\ last.other = stack
    /\ Len(stack) >= 2
    /\ \E i \in DOMAIN stack : stack[i].tag = "Object"
    /\ \E i \in DOMAIN stack : stack[i].tag = "Declarative" /\ poisoned(stack[i])
    /\ private_stack # <<>>


(***************************************************************************)
(* Vocabulary of C23: the poison walk visits the record at k when no       *)
(* declarative record above it has a function-scope compile environment.   *)
(***************************************************************************)
WalkVisits(s, k) ==
    \A j \in (k + 1)..Len(s) :
        s[j].tag = "Declarative" => ~is_function(compile_env(s[j]))

(***************************************************************************)
(* C23.  A record created by push_lexical or push_function starts with     *)
(* poisoned() equal to the poisoned() value, at the time of the push, of   *)
(* the nearest declarative record below it (object environments skipped;   *)
(* the global record when the stack holds no declarative record).  The     *)
(* value is the record's own from then on: a later step changes it only    *)
(* when poison_until_last_function's walk visits the record itself and     *)
(* sets it, and a record put back by extend comes with the value it had,   *)
(* whatever has been poisoned below it meanwhile.                          *)
(***************************************************************************)
C23_PoisonedIsCopiedAtPush ==
    [][/\ last'.op \in {"push_lexical", "push_function"}
            => /\ Len(stack') = Len(stack) + 1
               /\ stack'[Len(stack')].tag = "Declarative"
               /\ stack'[Len(stack')].poisoned =
                      EnclosingDeclarative(stack, global).poisoned
       /\ \A k \in 1..Len(stack) :
              (k <= Len(stack') /\ stack[k].tag = "Declarative"
                    /\ stack'[k] # stack[k])
                  => /\ last'.op = "poison_until_last_function"
                     /\ WalkVisits(stack, k)
                     /\ stack'[k] = [stack[k] EXCEPT !.poisoned = TRUE]
       /\ last'.op = "extend"
            => SubSeq(stack', Len(stack) + 1, Len(stack')) = last'.other]_vars

\* A record pushed above an object environment took the poisoned value of
\* the function record below the object, not that of the global record.
C23_Witness ==
    /\ last.op = "push_lexical"
    /\ Len(stack) = 3
    /\ stack[1].tag = "Declarative"
    /\ stack[1].poisoned
    /\ ~global.poisoned
    /\ stack[2].tag = "Object"
    /\ stack[3].poisoned


(***************************************************************************)
(* Vocabulary of C24: the walk of the private stack from the innermost     *)
(* environment to the outermost, each environment's descriptions in their  *)
(* own order, and the place where a description first occurs in it.        *)
(***************************************************************************)
RECURSIVE TopDownWalk(_)
TopDownWalk(ps) ==
    IF ps = <<>> THEN <<>>
    ELSE ps[Len(ps)].descriptions \o TopDownWalk(SubSeq(ps, 1, Len(ps) - 1))

FirstOccurrence(walk, d) ==
    CHOOSE k \in 1..Len(walk) :
        walk[k] = d /\ \A j \in 1..(k - 1) : walk[j] # d

(***************************************************************************)
(* C24.  private_name_descriptions() returns every description held by an  *)
(* environment on the private stack, each exactly once and nothing else,   *)
(* in the order of their first occurrences in the walk from the innermost  *)
(* environment to the outermost.                                           *)
(***************************************************************************)
C24_DescriptionsOnceInFirstSeenOrder ==
    last.op = "private_name_descriptions" =>
        LET names == last.names
            walk == TopDownWalk(private_stack)
        IN  /\ {names[k] : k \in 1..Len(names)} = {walk[k] : k \in 1..Len(walk)}
            /\ \A j, k \in 1..Len(names) : j # k => names[j] # names[k]
            /\ \A j, k \in 1..Len(names) :
                   j < k => FirstOccurrence(walk, names[j])
                                < FirstOccurrence(walk, names[k])

\* An inner environment repeats a description of an outer one and lists a
\* description of its own twice; the outer one adds a name after them.
C24_Witness ==
    /\ last.op = "private_name_descriptions"
    /\ Len(private_stack) = 2
    /\ private_stack[1].descriptions = <<"#x", "#y">>
    /\ private_stack[2].descriptions = <<"#y", "#z", "#y">>
    /\ last.names = <<"#y", "#z", "#x">>

=============================================================================
